---- MODULE Spec2Model ----
(***************************************************************************)
(* A model of greg, the OpenGL extension loader generator (src/greg.cpp). *)
(*                                                                         *)
(* main runs one batch pipeline: parse the options into a Target, load    *)
(* the registry, resolve a Manifest (generate_manifest), assemble the     *)
(* Output buffers (generate_output), substitute them into the template    *)
(* (generate_content) and write the result.  Every loop of the program is *)
(* modelled with one action per iteration, so that the state after every  *)
(* prefix of the registry is a state of the model.                        *)
(*                                                                         *)
(* Strings are sequences of letters.  A letter is a single character      *)
(* ("@", "|", ",", ".", a digit) or a word that the program never looks   *)
(* inside ("gl", "core", "glFoo", "#define ").  No word contains one of   *)
(* the single characters, so searching, splitting and concatenating the   *)
(* sequences behaves as it does on the characters.                        *)
(***************************************************************************)
EXTENDS Integers, Sequences, FiniteSets, TLC

VARIABLES pc, argv, optind, target, doc, i, manifest, output, text,
          outfile, status, stdout

vars == <<pc, argv, optind, target, doc, i, manifest, output, text,
          outfile, status, stdout>>

(***************************************************************************)
(* Bounds of the explored inputs.                                          *)
(***************************************************************************)
\* The longest list of varied elements (features, extensions, types,
\* commands, parameters) in an explored registry.
MaxElems == 2

(***************************************************************************)
(* String helpers (std::string / wire::string operations used by greg).    *)
(***************************************************************************)
Empty == <<>>

S_gl == <<"gl">>
S_gles2 == <<"gles2">>
S_core == <<"core">>
S_compat == <<"compatibility">>
S_void == <<"void">>
S_GLAPIENTRY == <<"GLAPIENTRY">>

\* The range of a sequence.
Range(s) == {s[k] : k \in 1..Len(s)}

\* std::string::find(t, from): the first position >= from where t occurs
\* in s, 0 for npos.  Positions are 1-based.
Find(s, t, from) ==
  LET hits == {p \in from..(Len(s) - Len(t) + 1) : SubSeq(s, p, p + Len(t) - 1) = t}
  IN  IF hits = {} THEN 0 ELSE CHOOSE p \in hits : \A q \in hits : p <= q

\* wire::string::replace(t, r): every occurrence of t, found left to right,
\* is replaced by r; the search resumes after the inserted text.
RECURSIVE ReplaceFrom(_, _, _, _)
ReplaceFrom(s, t, r, from) ==
  LET p == Find(s, t, from)
  IN  IF p = 0 THEN s
      ELSE ReplaceFrom(SubSeq(s, 1, p - 1) \o r \o SubSeq(s, p + Len(t), Len(s)),
                       t, r, p + Len(r))

Replace(s, t, r) == ReplaceFrom(s, t, r, 1)

\* wire::string::split(d) for a one-letter delimiter d: the pieces of s
\* between the occurrences of d, in order.
RECURSIVE Split(_, _)
Split(s, d) ==
  LET p == Find(s, <<d>>, 1)
  IN  IF p = 0 THEN <<s>>
      ELSE <<SubSeq(s, 1, p - 1)>> \o Split(SubSeq(s, p + 1, Len(s)), d)

\* wire::string::starts_with
StartsWith(s, t) == Len(s) >= Len(t) /\ SubSeq(s, 1, Len(t)) = t

\* wire::string::uppercase on the command names of the model.
UpperLetter(c) ==
  CASE c = "glFoo" -> "GLFOO"
    [] c = "glBar" -> "GLBAR"
    [] OTHER -> c

Uppercase(s) == [k \in 1..Len(s) |-> UpperLetter(s[k])]

\* Concatenation of a sequence of strings.
RECURSIVE Concat(_)
Concat(ss) == IF ss = <<>> THEN <<>> ELSE Head(ss) \o Concat(Tail(ss))

(***************************************************************************)
(* class Version                                                           *)
(***************************************************************************)
Digits == {"0", "1", "2", "3", "4", "5", "6", "7", "8", "9"}

DigitValue(c) ==
  CASE c = "0" -> 0 [] c = "1" -> 1 [] c = "2" -> 2 [] c = "3" -> 3
    [] c = "4" -> 4 [] c = "5" -> 5 [] c = "6" -> 6 [] c = "7" -> 7
    [] c = "8" -> 8 [] c = "9" -> 9

\* One %u conversion of sscanf starting at position p: the decimal digits
\* from p on.  ok is FALSE when there is no digit at p; next is the position
\* after the last digit consumed.  (The strings of the model are far from
\* the 32-bit limit of unsigned int.)
RECURSIVE ScanDigits(_, _, _)
ScanDigits(s, p, acc) ==
  IF p <= Len(s) /\ s[p] \in Digits
  THEN ScanDigits(s, p + 1, acc * 10 + DigitValue(s[p]))
  ELSE [val |-> acc, next |-> p]

ScanUInt(s, p) ==
  LET r == ScanDigits(s, p, 0)
  IN  [ok |-> r.next > p, val |-> r.val, next |-> r.next]

\* What an unsigned int member that no constructor assigned may hold.
Indeterminate == {0, 7}

\* Version(const char*): std::sscanf(string, "%u.%u", &major, &minor).
\* A member that sscanf does not assign keeps an indeterminate value, so
\* the result is a set of possible versions.
ParseVersion(s) ==
  LET a == ScanUInt(s, 1)
  IN  IF ~a.ok
      THEN {[major |-> x, minor |-> y] : x \in Indeterminate, y \in Indeterminate}
      ELSE IF a.next <= Len(s) /\ s[a.next] = "."
           THEN LET b == ScanUInt(s, a.next + 1)
                IN  IF b.ok
                    THEN {[major |-> a.val, minor |-> b.val]}
                    ELSE {[major |-> a.val, minor |-> y] : y \in Indeterminate}
           ELSE {[major |-> a.val, minor |-> y] : y \in Indeterminate}

\* Version::operator <= with the tie on the minor number excluded.
VersionLE_StrictMinor(v, other) ==
  v.major < other.major \/ (v.major = other.major /\ v.minor < other.minor)

\* Version::operator <=
VersionLE(v, other) ==
  v.major < other.major \/ (v.major = other.major /\ v.minor <= other.minor)

(***************************************************************************)
(* The registry document (pugixml).  A node is an element, a piece of      *)
(* character data, or the null node that a failed lookup returns.          *)
(* attrs is the element's attribute list, a sequence of <<key, value>>.    *)
(***************************************************************************)
Elem(name, attrs, children) ==
  [type |-> "element", name |-> name, attrs |-> attrs, value |-> <<>>,
   children |-> children]

PCData(t) ==
  [type |-> "pcdata", name |-> "", attrs |-> <<>>, value |-> t,
   children |-> <<>>]

NullNode ==
  [type |-> "null", name |-> "", attrs |-> <<>>, value |-> <<>>,
   children |-> <<>>]

\* xml_node::attribute(key) converted to bool
HasAttr(node, key) == \E k \in 1..Len(node.attrs) : node.attrs[k][1] = key

\* xml_node::attribute(key).value(): the empty string when there is no
\* such attribute
Attr(node, key) ==
  IF HasAttr(node, key)
  THEN LET k == CHOOSE k \in 1..Len(node.attrs) :
                  /\ node.attrs[k][1] = key
                  /\ \A j \in 1..(k - 1) : node.attrs[j][1] # key
       IN  node.attrs[k][2]
  ELSE Empty

\* xml_node::children(name)
Children(node, name) == SelectSeq(node.children, LAMBDA c : c.name = name)

\* xml_node::child(name): the first child of that name, or the null node
Child(node, name) ==
  LET cs == Children(node, name)
  IN  IF cs = <<>> THEN NullNode ELSE Head(cs)

\* xml_node::child_value(): the value of the first character data child
ChildValue(node) ==
  LET cs == SelectSeq(node.children, LAMBDA c : c.type = "pcdata")
  IN  IF cs = <<>> THEN Empty ELSE Head(cs).value

\* xml_node::child_value(name)
ChildValueOf(node, name) == ChildValue(Child(node, name))

\* xml_document::select_nodes for the paths greg uses: /registry/feature
\* and /registry/<group>/<name>, in document order.
RECURSIVE ConcatChildren(_, _)
ConcatChildren(groups, name) ==
  IF groups = <<>> THEN <<>>
  ELSE Children(Head(groups), name) \o ConcatChildren(Tail(groups), name)

SelectFeatures(d) == Children(d, "feature")
SelectGroup(d, group, name) == ConcatChildren(Children(d, group), name)

\* /registry/types/type[@requires]
SelectTypesWithRequires(d) ==
  SelectSeq(SelectGroup(d, "types", "type"), LAMBDA tn : HasAttr(tn, "requires"))

(***************************************************************************)
(* Symbol text extraction                                                  *)
(***************************************************************************)
api_name(tn) == IF HasAttr(tn, "api") THEN Attr(tn, "api") ELSE S_gl

type_name(type) ==
  IF HasAttr(type, "name") THEN Attr(type, "name") ELSE ChildValueOf(type, "name")

RECURSIVE scrape_type_text(_)
RECURSIVE scrape_type_children(_)
scrape_type_children(cs) ==
  IF cs = <<>> THEN <<>>
  ELSE scrape_type_text(Head(cs)) \o scrape_type_children(Tail(cs))

scrape_type_text(node) ==
  IF node.name = "apientry" THEN S_GLAPIENTRY
  ELSE node.value \o scrape_type_children(node.children)

RECURSIVE scrape_proto_text(_)
RECURSIVE scrape_proto_children(_)
scrape_proto_children(cs) ==
  IF cs = <<>> THEN <<>>
  ELSE scrape_proto_text(Head(cs)) \o scrape_proto_children(Tail(cs))

scrape_proto_text(node) ==
  IF node.name = "name" THEN Empty
  ELSE node.value \o scrape_proto_children(node.children)

\* The loop of command_params over the <param> children pns, with the text
\* accumulated so far.
RECURSIVE command_params_loop(_, _)
command_params_loop(pns, result) ==
  IF pns = <<>> THEN result
  ELSE LET sep == IF result # Empty THEN result \o <<", ">> ELSE result
       IN  command_params_loop(Tail(pns), sep \o scrape_proto_text(Head(pns)))

command_params(node) ==
  LET result == command_params_loop(Children(node, "param"), Empty)
  IN  IF result = Empty THEN S_void ELSE result

(***************************************************************************)
(* Manifest resolution                                                     *)
(***************************************************************************)
\* The name attributes of the children of node with the given tag.
NamesOf(node, tag) == {Attr(c, "name") : c \in Range(Children(node, tag))}

add_to_manifest(m, node) ==
  [m EXCEPT !.types = @ \cup NamesOf(node, "type"),
            !.enums = @ \cup NamesOf(node, "enum"),
            !.commands = @ \cup NamesOf(node, "command")]

remove_from_manifest(m, node) ==
  [m EXCEPT !.types = @ \ NamesOf(node, "type"),
            !.enums = @ \ NamesOf(node, "enum"),
            !.commands = @ \ NamesOf(node, "command")]

\* The test that guards remove_from_manifest in update_manifest.
RemoveApplies(t, rn) == Attr(rn, "profile") = t.profile

RECURSIVE AddAll(_, _)
AddAll(m, rns) ==
  IF rns = <<>> THEN m ELSE AddAll(add_to_manifest(m, Head(rns)), Tail(rns))

RECURSIVE RemoveAll(_, _, _)
RemoveAll(m, t, rns) ==
  IF rns = <<>> THEN m
  ELSE RemoveAll(IF RemoveApplies(t, Head(rns))
                 THEN remove_from_manifest(m, Head(rns)) ELSE m,
                 t, Tail(rns))

\* update_manifest with the <remove> children applied before the <require>
\* children.
update_manifest_RemoveFirst(m, t, node) ==
  AddAll(RemoveAll(m, t, Children(node, "remove")), Children(node, "require"))

update_manifest(m, t, node) ==
  RemoveAll(AddAll(m, Children(node, "require")), t, Children(node, "remove"))

\* The support test of generate_manifest: the api and profile joined, found
\* among the pieces of the supported attribute.
SupportToken(t) == t.api \o t.profile

\* The support test as a search for the token anywhere in the attribute.
IsSupported_Substring(t, en) ==
  Find(Attr(en, "supported"), SupportToken(t), 1) # 0

IsSupported(t, en) ==
  SupportToken(t) \in Range(Split(Attr(en, "supported"), "|"))

(***************************************************************************)
(* Output assembly: the lines generate_output appends.                     *)
(***************************************************************************)
\* boolean_name: a leading "GL_" replaced by "GREG_"
BooleanName(name) ==
  IF StartsWith(name, <<"GL_">>)
  THEN <<"GREG_">> \o SubSeq(name, 2, Len(name))
  ELSE name

\* The decimal text of an unsigned int.
Decimal(n) == <<ToString(n)>>

ExtMacroLine(extension) == <<"#define ">> \o extension \o <<" 1\n">>
ExtDeclarationLine(extension) ==
  <<"extern int ">> \o BooleanName(extension) \o <<";\n">>
ExtDefinitionLine(extension) ==
  <<"GREGDEF int ">> \o BooleanName(extension) \o <<" = 0;\n">>
ExtLoaderLine(extension) ==
  <<"    ">> \o BooleanName(extension) \o <<" = gregExtensionSupported(\"">>
  \o extension \o <<"\");\n">>

VerMacroLine(feature) == <<"#define ">> \o feature.name \o <<" 1\n">>
VerDeclarationLine(feature) ==
  <<"extern int ">> \o BooleanName(feature.name) \o <<";\n">>
VerDefinitionLine(feature) ==
  <<"GREGDEF int ">> \o BooleanName(feature.name) \o <<" = 0;\n">>
VerLoaderLine(feature) ==
  <<"    ">> \o BooleanName(feature.name) \o <<" = gregVersionSupported(">>
  \o Decimal(feature.version.major) \o <<", ">>
  \o Decimal(feature.version.minor) \o <<");\n">>

TypeLine(tn) == scrape_type_text(tn) \o <<"\n">>

EnumLine(en) ==
  <<"#define ">> \o Attr(en, "name") \o <<" ">> \o Attr(en, "value") \o <<"\n">>

FunctionName(cn) == ChildValueOf(Child(cn, "proto"), "name")
TypedefName(cn) == <<"PFN">> \o Uppercase(FunctionName(cn)) \o <<"PROC">>
PointerName(cn) == <<"greg_">> \o FunctionName(cn)

CmdTypedefLine(cn) ==
  <<"typedef ">> \o scrape_proto_text(Child(cn, "proto")) \o <<" (GLAPIENTRY *">>
  \o TypedefName(cn) \o <<")(">> \o command_params(cn) \o <<");\n">>
CmdDeclarationLine(cn) ==
  <<"extern ">> \o TypedefName(cn) \o <<" ">> \o PointerName(cn) \o <<";\n">>
CmdMacroLine(cn) ==
  <<"#define ">> \o FunctionName(cn) \o <<" ">> \o PointerName(cn) \o <<"\n">>
CmdDefinitionLine(cn) ==
  <<"GREGDEF ">> \o TypedefName(cn) \o <<" ">> \o PointerName(cn) \o <<" = NULL;\n">>
CmdLoaderLine(cn) ==
  <<"    ">> \o PointerName(cn) \o <<" = (">> \o TypedefName(cn)
  \o <<") gregGetProcAddress(\"">> \o FunctionName(cn) \o <<"\");\n">>

\* The api_name that generate_output starts with.
ApiName(t) ==
  IF t.api = S_gl THEN <<"OpenGL">>
  ELSE IF t.api = <<"gles1">> \/ t.api = S_gles2 THEN <<"OpenGL ES">>
  ELSE Empty

(***************************************************************************)
(* Template substitution                                                   *)
(***************************************************************************)
Tag(word) == <<"@", word, "@">>

\* The replacements of generate_content, in the order it makes them.  The
\* buffers other than api_name are kept as sequences of appended lines; the
\* string the program holds is their concatenation.
Bindings(o) ==
  << <<Tag("API_NAME"), o.api_name>>,
     <<Tag("TYPE_TYPEDEFS"), Concat(o.type_typedefs)>>,
     <<Tag("ENUM_DEFINITIONS"), Concat(o.enum_definitions)>>,
     <<Tag("EXT_MACROS"), Concat(o.ext_macros)>>,
     <<Tag("VER_MACROS"), Concat(o.ver_macros)>>,
     <<Tag("EXT_DECLARATIONS"), Concat(o.ext_declarations)>>,
     <<Tag("VER_DECLARATIONS"), Concat(o.ver_declarations)>>,
     <<Tag("EXT_DEFINITIONS"), Concat(o.ext_definitions)>>,
     <<Tag("VER_DEFINITIONS"), Concat(o.ver_definitions)>>,
     <<Tag("VER_LOADERS"), Concat(o.ver_loaders)>>,
     <<Tag("EXT_LOADERS"), Concat(o.ext_loaders)>>,
     <<Tag("CMD_TYPEDEFS"), Concat(o.cmd_typedefs)>>,
     <<Tag("CMD_DECLARATIONS"), Concat(o.cmd_declarations)>>,
     <<Tag("CMD_MACROS"), Concat(o.cmd_macros)>>,
     <<Tag("CMD_DEFINITIONS"), Concat(o.cmd_definitions)>>,
     <<Tag("CMD_LOADERS"), Concat(o.cmd_loaders)>> >>

RECURSIVE ReplaceEach(_, _)
ReplaceEach(t, bs) ==
  IF bs = <<>> THEN t
  ELSE ReplaceEach(Replace(t, Head(bs)[1], Head(bs)[2]), Tail(bs))

\* generate_content once read_file has returned the template text: the
\* replacements, one after the other, each on the result of the one before
generate_content(o, template) == ReplaceEach(template, Bindings(o))

(***************************************************************************)
(* The program state                                                       *)
(*                                                                         *)
(*   pc        where main is                                               *)
(*   argv      the options on the command line; optind the next one        *)
(*   target    the Target built from the options                           *)
(*   doc       the document in spec/gl.xml                                 *)
(*   i         the position of the running loop in its node sequence       *)
(*   manifest  the Manifest of generate_manifest                           *)
(*   output    the Output of generate_output                               *)
(*   text      the content returned by generate_content                    *)
(*   outfile   output/greg.h                                               *)
(*   status    the exit status, "running" until the process exits          *)
(*   stdout    what was printed                                            *)
(***************************************************************************)
EmptyManifest ==
  [features |-> <<>>, extensions |-> <<>>, types |-> {}, enums |-> {},
   commands |-> {}]

EmptyOutput ==
  [api_name |-> Empty, type_typedefs |-> <<>>, enum_definitions |-> <<>>,
   ext_macros |-> <<>>, ver_macros |-> <<>>, ext_declarations |-> <<>>,
   ver_declarations |-> <<>>, ext_definitions |-> <<>>, ver_definitions |-> <<>>,
   ver_loaders |-> <<>>, ext_loaders |-> <<>>, cmd_typedefs |-> <<>>,
   cmd_declarations |-> <<>>, cmd_macros |-> <<>>, cmd_definitions |-> <<>>,
   cmd_loaders |-> <<>>]

\* Target target = { "gl", "", { 4, 5 } }
DefaultTarget ==
  [api |-> S_gl, profile |-> Empty, version |-> [major |-> 4, minor |-> 5],
   extensions |-> {}]

\* output/greg.h before the run: whatever an earlier run left there.
Untouched == [touched |-> FALSE, content |-> <<"previous content">>]

InitWith(argvs, docs) ==
  /\ argv \in argvs
  /\ doc \in docs
  /\ pc = "getopt"
  /\ optind = 1
  /\ target = DefaultTarget
  /\ i = 0
  /\ manifest = EmptyManifest
  /\ output = EmptyOutput
  /\ text = Empty
  /\ outfile = Untouched
  /\ status = "running"
  /\ stdout = <<>>

(***************************************************************************)
(* The loops of generate_manifest and generate_output.  Each loops over a  *)
(* node sequence of the document or over a list of the manifest.           *)
(***************************************************************************)
Features == SelectFeatures(doc)
Extensions == SelectGroup(doc, "extensions", "extension")
Commands == SelectGroup(doc, "commands", "command")
Types == SelectGroup(doc, "types", "type")
TypesWithRequires == SelectTypesWithRequires(doc)
Enums == SelectGroup(doc, "enums", "enum")

ManifestLoops == <<"features", "extensions", "param_types", "requires">>
OutputLoops ==
  <<"out_extensions", "out_features", "out_types", "out_enums", "out_commands">>

LoopLen(loop, m) ==
  CASE loop = "features" -> Len(Features)
    [] loop = "extensions" -> Len(Extensions)
    [] loop = "param_types" -> Len(Commands)
    [] loop = "requires" -> Len(TypesWithRequires)
    [] loop = "out_extensions" -> Len(m.extensions)
    [] loop = "out_features" -> Len(m.features)
    [] loop = "out_types" -> Len(Types)
    [] loop = "out_enums" -> Len(Enums)
    [] loop = "out_commands" -> Len(Commands)

\* The first loop among loops[k..] that has a node to process, at its first
\* node; after the last loop control is at the location after.
RECURSIVE FirstLoop(_, _, _, _)
FirstLoop(loops, k, m, after) ==
  IF k > Len(loops) THEN <<after, 0>>
  ELSE IF LoopLen(loops[k], m) > 0 THEN <<loops[k], 1>>
  ELSE FirstLoop(loops, k + 1, m, after)

IndexOf(loops, loop) == CHOOSE k \in 1..Len(loops) : loops[k] = loop

\* Where control is once iteration i of loop is done, with manifest m.
AfterStep(loops, loop, m, after) ==
  IF i < LoopLen(loop, m) THEN <<loop, i + 1>>
  ELSE FirstLoop(loops, IndexOf(loops, loop) + 1, m, after)

GoTo(pos) == pc' = pos[1] /\ i' = pos[2]

\* error(message): print it and exit with EXIT_FAILURE
Error(message) ==
  /\ stdout' = Append(stdout, message)
  /\ status' = "EXIT_FAILURE"
  /\ pc' = "exited"

(***************************************************************************)
(* main: the option loop                                                   *)
(***************************************************************************)
Getopt ==
  /\ pc = "getopt"
  /\ optind <= Len(argv)
  /\ LET o == argv[optind]
     IN  CASE o.opt = "api" ->
                /\ target' = [target EXCEPT !.api = o.arg]
                /\ UNCHANGED <<pc, status, stdout>>
           [] o.opt = "core" ->
                /\ target' = [target EXCEPT !.profile = S_core]
                /\ UNCHANGED <<pc, status, stdout>>
           [] o.opt = "version" ->
                /\ \E v \in ParseVersion(o.arg) :
                     target' = [target EXCEPT !.version = v]
                /\ UNCHANGED <<pc, status, stdout>>
           [] o.opt = "extensions" ->
                /\ target' = [target EXCEPT
                                !.extensions = @ \cup Range(Split(o.arg, ","))]
                /\ UNCHANGED <<pc, status, stdout>>
           [] o.opt \in {"h", "help"} ->
                /\ stdout' = Append(stdout, <<"usage">>)
                /\ status' = "EXIT_SUCCESS"
                /\ pc' = "exited"
                /\ UNCHANGED target
           [] OTHER ->
                /\ stdout' = Append(stdout, <<"usage">>)
                /\ status' = "EXIT_FAILURE"
                /\ pc' = "exited"
                /\ UNCHANGED target
  /\ optind' = optind + 1
  /\ UNCHANGED <<argv, doc, i, manifest, output, text, outfile>>

\* getopt_long has returned -1; std::ifstream stream("spec/gl.xml")
OpenSpec ==
  /\ pc = "getopt"
  /\ optind > Len(argv)
  /\ \E found \in BOOLEAN :
       IF found
       THEN pc' = "load" /\ UNCHANGED <<status, stdout>>
       ELSE Error(<<"File not found">>)
  /\ UNCHANGED <<argv, optind, target, doc, i, manifest, output, text,
                 outfile>>

\* spec.load(stream); on success generate_manifest starts
LoadSpec ==
  /\ pc = "load"
  /\ \E wellformed \in BOOLEAN :
       IF wellformed
       THEN /\ GoTo(FirstLoop(ManifestLoops, 1, manifest, "generate_output"))
            /\ UNCHANGED <<status, stdout>>
       ELSE Error(<<"Failed to parse file">>) /\ UNCHANGED i
  /\ UNCHANGED <<argv, optind, target, doc, manifest, output, text,
                 outfile>>

(***************************************************************************)
(* generate_manifest                                                       *)
(***************************************************************************)
\* The acceptance test of the feature loop.
FeatureAccepted(t, fn, version) ==
  Attr(fn, "api") = t.api /\ VersionLE(version, t.version)

\* One iteration of the loop over /registry/feature
FeatureStep ==
  /\ pc = "features"
  /\ LET fn == Features[i]
     IN  \E version \in ParseVersion(Attr(fn, "number")) :
           /\ IF FeatureAccepted(target, fn, version)
              THEN manifest' =
                     [update_manifest(manifest, target, fn) EXCEPT
                        !.features = Append(@, [name |-> Attr(fn, "name"),
                                                version |-> version])]
              ELSE UNCHANGED manifest
  /\ GoTo(AfterStep(ManifestLoops, "features", manifest', "generate_output"))
  /\ UNCHANGED <<argv, optind, target, doc, output, text, outfile, status, stdout>>

\* One iteration of the loop over /registry/extensions/extension
ExtensionStep ==
  /\ pc = "extensions"
  /\ LET en == Extensions[i]
         name == Attr(en, "name")
     IN  IF name \in target.extensions
         THEN IF ~IsSupported(target, en)
              THEN /\ stdout' = Append(stdout,
                                  <<"Excluding unsupported extension ">> \o name
                                  \o <<"\n">>)
                   /\ UNCHANGED manifest
              ELSE /\ manifest' =
                        [update_manifest(manifest, target, en) EXCEPT
                           !.extensions = Append(@, name)]
                   /\ UNCHANGED stdout
         ELSE UNCHANGED <<manifest, stdout>>
  /\ GoTo(AfterStep(ManifestLoops, "extensions", manifest', "generate_output"))
  /\ UNCHANGED <<argv, optind, target, doc, output, text, outfile, status>>

\* The ptype text of the first <param> child only.
ParamTypes_FirstParam(cn) ==
  LET pns == Children(cn, "param")
  IN  IF pns = <<>> \/ Child(Head(pns), "ptype").type = "null" THEN {}
      ELSE {ChildValue(Child(Head(pns), "ptype"))}

\* The ptype texts of the <param> children of a command that have one.
ParamTypes(cn) ==
  {ChildValue(Child(pn, "ptype")) :
     pn \in {q \in Range(Children(cn, "param")) : Child(q, "ptype").type # "null"}}

\* One iteration of the loop over /registry/commands/command
ParamTypeStep ==
  /\ pc = "param_types"
  /\ LET cn == Commands[i]
     IN  IF FunctionName(cn) \in manifest.commands
         THEN manifest' = [manifest EXCEPT !.types = @ \cup ParamTypes(cn)]
         ELSE UNCHANGED manifest
  /\ GoTo(AfterStep(ManifestLoops, "param_types", manifest', "generate_output"))
  /\ UNCHANGED <<argv, optind, target, doc, output, text, outfile, status,
                 stdout>>

\* One iteration of the loop over /registry/types/type[@requires]
RequiresStep ==
  /\ pc = "requires"
  /\ LET tn == TypesWithRequires[i]
     IN  IF type_name(tn) \in manifest.types /\ api_name(tn) = target.api
         THEN manifest' = [manifest EXCEPT !.types = @ \cup {Attr(tn, "requires")}]
         ELSE UNCHANGED manifest
  /\ GoTo(AfterStep(ManifestLoops, "requires", manifest', "generate_output"))
  /\ UNCHANGED <<argv, optind, target, doc, output, text, outfile, status,
                 stdout>>

(***************************************************************************)
(* generate_output                                                         *)
(***************************************************************************)
\* generate_manifest has returned; generate_output sets api_name
BeginOutput ==
  /\ pc = "generate_output"
  /\ output' = [output EXCEPT !.api_name = ApiName(target)]
  /\ GoTo(FirstLoop(OutputLoops, 1, manifest, "content"))
  /\ UNCHANGED <<argv, optind, target, doc, manifest, text, outfile, status,
                 stdout>>

\* One iteration of the loop over manifest.extensions
OutExtensionStep ==
  /\ pc = "out_extensions"
  /\ LET extension == manifest.extensions[i]
     IN  output' = [output EXCEPT
           !.ext_macros = Append(@, ExtMacroLine(extension)),
           !.ext_declarations = Append(@, ExtDeclarationLine(extension)),
           !.ext_definitions = Append(@, ExtDefinitionLine(extension)),
           !.ext_loaders = Append(@, ExtLoaderLine(extension))]
  /\ GoTo(AfterStep(OutputLoops, "out_extensions", manifest, "content"))
  /\ UNCHANGED <<argv, optind, target, doc, manifest, text, outfile, status,
                 stdout>>

\* One iteration of the loop over manifest.features
OutFeatureStep ==
  /\ pc = "out_features"
  /\ LET feature == manifest.features[i]
     IN  output' = [output EXCEPT
           !.ver_macros = Append(@, VerMacroLine(feature)),
           !.ver_declarations = Append(@, VerDeclarationLine(feature)),
           !.ver_definitions = Append(@, VerDefinitionLine(feature)),
           !.ver_loaders = Append(@, VerLoaderLine(feature))]
  /\ GoTo(AfterStep(OutputLoops, "out_features", manifest, "content"))
  /\ UNCHANGED <<argv, optind, target, doc, manifest, text, outfile, status,
                 stdout>>

\* One iteration of the loop over /registry/types/type
OutTypeStep ==
  /\ pc = "out_types"
  /\ LET tn == Types[i]
     IN  IF type_name(tn) \notin manifest.types \/ api_name(tn) # target.api
         THEN UNCHANGED output
         ELSE output' = [output EXCEPT !.type_typedefs = Append(@, TypeLine(tn))]
  /\ GoTo(AfterStep(OutputLoops, "out_types", manifest, "content"))
  /\ UNCHANGED <<argv, optind, target, doc, manifest, text, outfile, status,
                 stdout>>

\* One iteration of the loop over /registry/enums/enum
OutEnumStep ==
  /\ pc = "out_enums"
  /\ LET en == Enums[i]
     IN  IF Attr(en, "name") \notin manifest.enums
         THEN UNCHANGED output
         ELSE output' = [output EXCEPT !.enum_definitions = Append(@, EnumLine(en))]
  /\ GoTo(AfterStep(OutputLoops, "out_enums", manifest, "content"))
  /\ UNCHANGED <<argv, optind, target, doc, manifest, text, outfile, status,
                 stdout>>

\* The iteration with the loader line appended for every command, selected
\* or not.
OutCommandStep_LoaderForAll ==
  /\ pc = "out_commands"
  /\ LET cn == Commands[i]
     IN  IF FunctionName(cn) \notin manifest.commands
         THEN output' = [output EXCEPT !.cmd_loaders = Append(@, CmdLoaderLine(cn))]
         ELSE output' = [output EXCEPT
                !.cmd_typedefs = Append(@, CmdTypedefLine(cn)),
                !.cmd_declarations = Append(@, CmdDeclarationLine(cn)),
                !.cmd_macros = Append(@, CmdMacroLine(cn)),
                !.cmd_definitions = Append(@, CmdDefinitionLine(cn)),
                !.cmd_loaders = Append(@, CmdLoaderLine(cn))]
  /\ GoTo(AfterStep(OutputLoops, "out_commands", manifest, "content"))
  /\ UNCHANGED <<argv, optind, target, doc, manifest, text, outfile, status,
                 stdout>>

\* One iteration of the second loop over /registry/commands/command
OutCommandStep ==
  /\ pc = "out_commands"
  /\ LET cn == Commands[i]
     IN  IF FunctionName(cn) \notin manifest.commands
         THEN UNCHANGED output
         ELSE output' = [output EXCEPT
                !.cmd_typedefs = Append(@, CmdTypedefLine(cn)),
                !.cmd_declarations = Append(@, CmdDeclarationLine(cn)),
                !.cmd_macros = Append(@, CmdMacroLine(cn)),
                !.cmd_definitions = Append(@, CmdDefinitionLine(cn)),
                !.cmd_loaders = Append(@, CmdLoaderLine(cn))]
  /\ GoTo(AfterStep(OutputLoops, "out_commands", manifest, "content"))
  /\ UNCHANGED <<argv, optind, target, doc, manifest, text, outfile, status,
                 stdout>>

(***************************************************************************)
(* generate_content, write_file and the end of main                        *)
(***************************************************************************)
\* The texts templates/greg.h.in may hold.
FullTemplate ==
  <<"/* ">> \o Tag("API_NAME") \o <<" loader */\n">>
  \o Tag("TYPE_TYPEDEFS") \o Tag("ENUM_DEFINITIONS")
  \o Tag("EXT_MACROS") \o Tag("VER_MACROS")
  \o Tag("EXT_DECLARATIONS") \o Tag("VER_DECLARATIONS")
  \o Tag("CMD_TYPEDEFS") \o Tag("CMD_DECLARATIONS") \o Tag("CMD_MACROS")
  \o <<"#ifdef GREG_IMPLEMENTATION\n">>
  \o Tag("EXT_DEFINITIONS") \o Tag("VER_DEFINITIONS") \o Tag("CMD_DEFINITIONS")
  \o <<"int gregInit(void) {\n">>
  \o Tag("VER_LOADERS") \o Tag("EXT_LOADERS") \o Tag("CMD_LOADERS")
  \o <<"}\n#endif\n">>

Templates ==
  { FullTemplate,
    <<"/* no tags */\n">>,
    <<"a">> \o Tag("TYPE_TYPEDEFS") \o <<"b">> \o Tag("CMD_LOADERS") \o <<"c">>,
    Tag("ENUM_DEFINITIONS") \o Tag("UNKNOWN") \o Tag("ENUM_DEFINITIONS") }

\* The template read with the output stream already opened, and so
\* truncated, when read_file fails.
ReadTemplate_OutputOpenedFirst ==
  /\ pc = "content"
  /\ \/ /\ Error(<<"File not found">>)
        /\ outfile' = [touched |-> TRUE, content |-> Empty]
        /\ UNCHANGED text
     \/ \E template \in Templates :
          /\ text' = template
          /\ pc' = "replace_tags"
          /\ UNCHANGED <<status, stdout, outfile>>
  /\ UNCHANGED <<argv, optind, target, doc, i, manifest, output>>

\* generate_content calls read_file before write_file has opened the
\* output: a template that cannot be opened ends the run here
ReadTemplate ==
  /\ pc = "content"
  /\ \/ Error(<<"File not found">>) /\ UNCHANGED text
     \/ \E template \in Templates :
          /\ text' = template
          /\ pc' = "replace_tags"
          /\ UNCHANGED <<status, stdout>>
  /\ UNCHANGED <<argv, optind, target, doc, i, manifest, output, outfile>>

\* the sixteen text.replace calls of generate_content
ReplaceTags ==
  /\ pc = "replace_tags"
  /\ text' = generate_content(output, text)
  /\ pc' = "write_file"
  /\ UNCHANGED <<argv, optind, target, doc, i, manifest, output, outfile,
                 status, stdout>>

\* write_file: the stream is opened with std::ios::trunc
OpenOutput ==
  /\ pc = "write_file"
  /\ \E created \in BOOLEAN :
       IF created
       THEN /\ outfile' = [touched |-> TRUE, content |-> Empty]
            /\ pc' = "write"
            /\ UNCHANGED <<status, stdout>>
       ELSE Error(<<"Failed to create file">>) /\ UNCHANGED outfile
  /\ UNCHANGED <<argv, optind, target, doc, i, manifest, output, text>>

\* stream << content, and the stream is closed on return
WriteOutput ==
  /\ pc = "write"
  /\ outfile' = [outfile EXCEPT !.content = text]
  /\ pc' = "exit"
  /\ UNCHANGED <<argv, optind, target, doc, i, manifest, output, text, status,
                 stdout>>

\* std::exit(EXIT_SUCCESS) at the end of main
Exit ==
  /\ pc = "exit"
  /\ status' = "EXIT_SUCCESS"
  /\ pc' = "exited"
  /\ UNCHANGED <<argv, optind, target, doc, i, manifest, output, text, outfile,
                 stdout>>

Next ==
  \/ Getopt
  \/ OpenSpec
  \/ LoadSpec
  \/ FeatureStep
  \/ ExtensionStep
  \/ ParamTypeStep
  \/ RequiresStep
  \/ BeginOutput
  \/ OutExtensionStep
  \/ OutFeatureStep
  \/ OutTypeStep
  \/ OutEnumStep
  \/ OutCommandStep
  \/ ReadTemplate
  \/ ReplaceTags
  \/ OpenOutput
  \/ WriteOutput
  \/ Exit

(***************************************************************************)
(* The explored inputs: command lines and registry documents               *)
(***************************************************************************)
SeqsUpTo(S, n) == UNION {[1..k -> S] : k \in 0..n}

N_glFoo == <<"glFoo">>
N_glBar == <<"glBar">>
N_glBaz == <<"glBaz">>
T_GLenum == <<"GLenum">>
T_GLsync == <<"GLsync">>
T_GLint64 == <<"GLint64">>
T_khrplatform == <<"khrplatform">>
T_GLDEBUGPROC == <<"GLDEBUGPROC">>
E_GL_ONE == <<"GL_ONE">>
X_GL_EXT_a == <<"GL_", "EXT_a">>
X_GL_EXT_b == <<"GL_", "EXT_b">>

Ref(tag, name) == Elem(tag, <<<<"name", name>>>>, <<>>)
Require(refs) == Elem("require", <<>>, refs)
Remove(refs) == Elem("remove", <<>>, refs)
RemoveFor(profile, refs) == Elem("remove", <<<<"profile", profile>>>>, refs)

Feature(api, number, children) ==
  Elem("feature",
       <<<<"api", api>>, <<"name", <<"GL_", "VERSION_">> \o number>>,
         <<"number", number>>>>,
       children)

Extension(name, supported, children) ==
  Elem("extension", <<<<"name", name>>, <<"supported", supported>>>>, children)

NameElem(name) == Elem("name", <<>>, <<PCData(name)>>)

\* <type [attrs]>typedef <text> <name>NAME</name>;</type>
TypeDef(name, attrs, txt) ==
  Elem("type", attrs,
       <<PCData(<<"typedef ">> \o txt \o <<" ">>), NameElem(name), PCData(<<";">>)>>)

\* <type name="NAME" [attrs]>text</type>
TypeNamed(name, attrs, txt) ==
  Elem("type", <<<<"name", name>>>> \o attrs, <<PCData(txt)>>)

\* <type>typedef void (<apientry/> *<name>NAME</name>)(void);</type>
TypeCallback(name) ==
  Elem("type", <<>>,
       <<PCData(<<"typedef void (">>), Elem("apientry", <<>>, <<>>),
         PCData(<<" *">>), NameElem(name), PCData(<<")(void);">>)>>)

EnumElem(name, value) == Elem("enum", <<<<"name", name>>, <<"value", value>>>>, <<>>)

\* <param><ptype>T</ptype> <name>n</name></param>
ParamPtype(ptype, name) ==
  Elem("param", <<>>,
       <<Elem("ptype", <<>>, <<PCData(ptype)>>), PCData(<<" ">>), NameElem(name)>>)

\* <param>text <name>n</name></param>
ParamPlain(txt, name) == Elem("param", <<>>, <<PCData(txt), NameElem(name)>>)

\* <param><name>n</name></param>
ParamBare(name) == Elem("param", <<>>, <<NameElem(name)>>)

\* <command><proto>void <name>NAME</name></proto> params </command>
Command(name, params) ==
  Elem("command", <<>>,
       <<Elem("proto", <<>>, <<PCData(<<"void ">>), NameElem(name)>>)>> \o params)

Registry(features, extensions, types, enums, commands) ==
  Elem("registry", <<>>,
       <<Elem("types", <<>>, types), Elem("enums", <<>>, enums),
         Elem("commands", <<>>, commands)>>
       \o features
       \o <<Elem("extensions", <<>>, extensions)>>)

V_1_0 == <<"1", ".", "0">>
V_2_0 == <<"2", ".", "0">>
V_2_1 == <<"2", ".", "1">>
V_2_10 == <<"2", ".", "1", "0">>
V_2 == <<"2">>

FooRefs == <<Ref("command", N_glFoo), Ref("type", T_GLenum), Ref("enum", E_GL_ONE)>>

BaseFeatures ==
  <<Feature(S_gl, V_1_0,
            <<Require(FooRefs \o <<Ref("type", T_GLDEBUGPROC)>>)>>)>>

BaseExtensions ==
  <<Extension(X_GL_EXT_a, S_gl \o <<"|">> \o S_gl \o S_core,
              <<Require(<<Ref("command", N_glFoo), Ref("command", N_glBar)>>)>>)>>

BaseTypes ==
  <<TypeNamed(T_khrplatform, <<>>, <<"#include <KHR/khrplatform.h>">>),
    TypeDef(T_GLenum, <<>>, <<"unsigned int">>),
    TypeDef(T_GLsync, <<<<"requires", T_khrplatform>>>>, <<"struct __GLsync *">>),
    TypeCallback(T_GLDEBUGPROC)>>

BaseEnums == <<EnumElem(E_GL_ONE, <<"1">>), EnumElem(<<"GL_ZERO">>, <<"0">>)>>

BaseCommands ==
  <<Command(N_glFoo, <<ParamPtype(T_GLenum, <<"target">>),
                       ParamPtype(T_GLsync, <<"sync">>)>>),
    Command(N_glBar, <<>>),
    Command(N_glBaz, <<ParamPlain(<<"int ">>, <<"x">>)>>)>>

Opt(o, a) == [opt |-> o, arg |-> a]

\* Command lines that end the run in the option loop.
ExitingArgvs ==
  { <<Opt("help", Empty)>>, <<Opt("core", Empty), Opt("h", Empty)>>,
    <<Opt("bogus", Empty)>> }

OptApi(api) == IF api = Empty THEN <<>> ELSE <<Opt("api", api)>>
OptCore(core) == IF core THEN <<Opt("core", Empty)>> ELSE <<>>
OptVersion(v) == IF v = Empty THEN <<>> ELSE <<Opt("version", v)>>
OptExtensions(e) == IF e = Empty THEN <<>> ELSE <<Opt("extensions", e)>>

Argv(api, core, v, e) ==
  OptApi(api) \o OptCore(core) \o OptVersion(v) \o OptExtensions(e)

\* Versions: features of either api and several numbers, one of them
\* without a minor part, against several ceilings.
VersionFeatures ==
  {Feature(api, number,
           <<Require(IF number = V_1_0 THEN FooRefs ELSE <<Ref("command", N_glBar)>>)>>) :
     api \in {S_gl, S_gles2}, number \in {V_1_0, V_2_1, V_2_10, V_2}}

VersionArgvs ==
  {Argv(api, FALSE, v, X_GL_EXT_a) :
     api \in {Empty, S_gles2}, v \in {Empty, V_2_1, V_2_10, V_2}}
  \cup ExitingArgvs

VersionDocs ==
  {Registry(fs, BaseExtensions, BaseTypes, BaseEnums, BaseCommands) :
     fs \in SeqsUpTo(VersionFeatures, MaxElems)}

InitVersions == InitWith(VersionArgvs, VersionDocs)

\* Profiles: features that require and remove the same names, with and
\* without a profile attribute, in either document order.
ProfileChildren ==
  { <<Require(FooRefs)>>,
    <<RemoveFor(S_core, FooRefs)>>,
    <<Remove(FooRefs)>>,
    <<RemoveFor(S_compat, FooRefs)>>,
    <<RemoveFor(S_core, FooRefs), Require(FooRefs)>>,
    <<RemoveFor(S_core, <<Ref("type", T_GLenum)>>)>> }

ProfileFeatures ==
  {Feature(S_gl, number, children) :
     number \in {V_1_0, V_2_0}, children \in ProfileChildren}

ProfileArgvs ==
  {Argv(Empty, core, Empty, e) :
     core \in BOOLEAN, e \in {Empty, X_GL_EXT_a}}
  \cup {Argv(Empty, TRUE, V_1_0, Empty)}
  \cup ExitingArgvs

ProfileDocs ==
  {Registry(fs, BaseExtensions, BaseTypes, BaseEnums, BaseCommands) :
     fs \in SeqsUpTo(ProfileFeatures, MaxElems)}

InitProfiles == InitWith(ProfileArgvs, ProfileDocs)

\* Extensions: two extensions with several supported attributes, against
\* the targets gl, gl core and gles2 and several requested lists.
ExtensionChildren(name) ==
  IF name = X_GL_EXT_a
  THEN <<Require(<<Ref("command", N_glBar)>>)>>
  ELSE <<Require(<<Ref("command", N_glBaz)>>), RemoveFor(S_core, FooRefs)>>

Supports ==
  { S_gl, S_gles2, S_gl \o <<"|">> \o S_gl \o S_core,
    S_gl \o S_core \o <<"|">> \o S_gles2 }

VariedExtensions ==
  {Extension(name, supported, ExtensionChildren(name)) :
     name \in {X_GL_EXT_a, X_GL_EXT_b}, supported \in Supports}

ExtensionArgvs ==
  {Argv(t[1], t[2], Empty, e) :
     t \in {<<Empty, FALSE>>, <<Empty, TRUE>>, <<S_gles2, FALSE>>},
     e \in {Empty, X_GL_EXT_a, X_GL_EXT_a \o <<",">> \o X_GL_EXT_b}}
  \cup ExitingArgvs

ExtensionDocs ==
  {Registry(BaseFeatures, es, BaseTypes, BaseEnums, BaseCommands) :
     es \in SeqsUpTo(VariedExtensions, MaxElems)}

InitExtensions == InitWith(ExtensionArgvs, ExtensionDocs)

\* Types: chains of requires attributes in every document order, and a
\* type of another api.
VariedTypes ==
  { TypeDef(T_GLsync, <<<<"requires", T_GLint64>>>>, <<"struct __GLsync *">>),
    TypeDef(T_GLint64, <<<<"requires", T_khrplatform>>>>, <<"khronos_int64_t">>),
    TypeDef(T_GLsync, <<<<"api", S_gles2>>, <<"requires", T_khrplatform>>>>,
            <<"struct __GLsync *">>),
    TypeNamed(T_khrplatform, <<>>, <<"#include <KHR/khrplatform.h>">>),
    TypeDef(T_GLenum, <<>>, <<"unsigned int">>) }

TypeArgvs ==
  {Argv(Empty, core, Empty, X_GL_EXT_a) : core \in BOOLEAN} \cup ExitingArgvs

TypeDocs ==
  {Registry(fs, BaseExtensions, ts, BaseEnums, BaseCommands) :
     fs \in {BaseFeatures,
             BaseFeatures \o <<Feature(S_gl, V_2_0,
                                       <<RemoveFor(S_core, <<Ref("type", T_GLenum),
                                                             Ref("type", T_GLsync)>>)>>)>>},
     ts \in SeqsUpTo(VariedTypes, MaxElems)}

InitTypes == InitWith(TypeArgvs, TypeDocs)

\* Commands: lists of commands, required or not, and parameter lists with
\* and without type text.
VariedParams ==
  { ParamBare(<<"x">>), ParamPlain(<<"int ">>, <<"n">>),
    ParamPtype(T_GLenum, <<"e">>) }

VariedCommands ==
  {Command(name, params) :
     name \in {N_glFoo, N_glBar, N_glBaz},
     params \in {<<>>, <<ParamPtype(T_GLsync, <<"sync">>)>>}}

CommandArgvs ==
  {Argv(Empty, FALSE, Empty, e) : e \in {Empty, X_GL_EXT_a}} \cup ExitingArgvs

CommandDocs ==
  {Registry(BaseFeatures, BaseExtensions, BaseTypes, BaseEnums, cs) :
     cs \in SeqsUpTo(VariedCommands, MaxElems)}
  \cup
  {Registry(BaseFeatures, BaseExtensions, BaseTypes, BaseEnums,
            <<Command(N_glFoo, ps)>>) :
     ps \in SeqsUpTo(VariedParams, MaxElems)}

InitCommands == InitWith(CommandArgvs, CommandDocs)

\* Content: registry text that itself holds the text of a tag.
VariedTexts ==
  { <<"unsigned int">>, Tag("API_NAME"), Tag("TYPE_TYPEDEFS"), Tag("CMD_LOADERS") }

ContentArgvs == {Argv(Empty, FALSE, Empty, X_GL_EXT_a)} \cup ExitingArgvs

ContentDocs ==
  {Registry(BaseFeatures, BaseExtensions,
            <<TypeDef(T_GLenum, <<>>, t),
              TypeDef(T_GLsync, <<<<"requires", T_khrplatform>>>>, <<"void *">>)>>,
            <<EnumElem(E_GL_ONE, v)>>,
            BaseCommands) :
     t \in VariedTexts, v \in {<<"1">>, Tag("EXT_MACROS")}}

InitContent == InitWith(ContentArgvs, ContentDocs)

SpecVersions == InitVersions /\ [][Next]_vars
SpecProfiles == InitProfiles /\ [][Next]_vars
SpecExtensions == InitExtensions /\ [][Next]_vars
SpecTypes == InitTypes /\ [][Next]_vars
SpecCommands == InitCommands /\ [][Next]_vars
SpecContent == InitContent /\ [][Next]_vars

(***************************************************************************)
(* C3: the version ceiling                                                 *)
(***************************************************************************)
\* The versions a number attribute or a --version argument stands for: the
\* two integers around the dot; a missing minor part leaves the minor
\* member indeterminate.
C3_Meaning(number) ==
  CASE number = V_1_0 -> {[major |-> 1, minor |-> 0]}
    [] number = V_2_0 -> {[major |-> 2, minor |-> 0]}
    [] number = V_2_1 -> {[major |-> 2, minor |-> 1]}
    [] number = V_2_10 -> {[major |-> 2, minor |-> 10]}
    [] number = V_2 -> {[major |-> 2, minor |-> y] : y \in Indeterminate}

\* (major, minor) pairs compared lexicographically, ties included.
C3_LexLE(a, b) ==
  ~(a.major > b.major \/ (a.major = b.major /\ a.minor > b.minor))

C3_TargetVersion ==
  \A k \in 1..(optind - 1) :
    argv[k].opt = "version" => target.version \in C3_Meaning(argv[k].arg)

C3_Ceiling ==
  \A k \in 1..Len(manifest.features) :
    C3_LexLE(manifest.features[k].version, target.version)

C3_FeatureStep ==
  pc = "features" =>
    LET fn == Features[i]
        meaning == C3_Meaning(Attr(fn, "number"))
        Accept(v) == Attr(fn, "api") = target.api /\ C3_LexLE(v, target.version)
    IN  \/ /\ \E v \in meaning : ~Accept(v)
           /\ manifest' = manifest
        \/ \E v \in meaning :
             /\ Accept(v)
             /\ manifest'.features =
                  Append(manifest.features,
                         [name |-> Attr(fn, "name"), version |-> v])

\* C3: a <feature> is accepted exactly when its api attribute equals
\* target.api and its version, read as a pair of integers, is
\* lexicographically at most target.version (ties included, 2.10 above 2.1);
\* every record of manifest.features is within the ceiling, and a feature
\* that is not accepted leaves the manifest as it was.
C3_VersionCeiling ==
  /\ [](C3_TargetVersion /\ C3_Ceiling)
  /\ [][C3_FeatureStep]_vars

\* The feature loop is over a registry that declares 2.10 before 2.1, under
\* --version=2.1: only 2.1 was accepted.
C3_Witness ==
  /\ pc = "extensions"
  /\ target.version = [major |-> 2, minor |-> 1]
  /\ Len(Features) = 2
  /\ Attr(Features[1], "number") = V_2_10
  /\ Attr(Features[1], "api") = target.api
  /\ Attr(Features[2], "number") = V_2_1
  /\ Attr(Features[2], "api") = target.api
  /\ manifest.features =
       <<[name |-> Attr(Features[2], "name"), version |-> [major |-> 2, minor |-> 1]]>>

(***************************************************************************)
(* C1: which <remove> children are applied                                 *)
(***************************************************************************)
\* The rule of the claim: a profile is configured, and the <remove> has no
\* profile attribute or names the configured profile.
C1_ClaimedToApply(rn) ==
  /\ target.profile # Empty
  /\ (~HasAttr(rn, "profile") \/ Attr(rn, "profile") = target.profile)

C1_Step ==
  pc \in {"features", "extensions"} =>
    LET node == IF pc = "features" THEN Features[i] ELSE Extensions[i]
        accepted == \/ manifest'.features # manifest.features
                    \/ manifest'.extensions # manifest.extensions
        claimed == {rn \in Range(Children(node, "remove")) : C1_ClaimedToApply(rn)}
        Listed(tag) == UNION {NamesOf(rn, tag) : rn \in claimed}
    IN  accepted =>
          /\ manifest'.types \cap Listed("type") = {}
          /\ manifest'.enums \cap Listed("enum") = {}
          /\ manifest'.commands \cap Listed("command") = {}
          /\ (manifest.types \ manifest'.types) \subseteq Listed("type")
          /\ (manifest.enums \ manifest'.enums) \subseteq Listed("enum")
          /\ (manifest.commands \ manifest'.commands) \subseteq Listed("command")

\* C1: for an accepted feature or extension, the names a <remove> child
\* lists are erased exactly when a profile is configured and the <remove>
\* has no profile attribute or names the configured profile.
C1_RemoveRule == [][C1_Step]_vars

(***************************************************************************)
(* C2: require and remove are last-write-wins in traversal order           *)
(***************************************************************************)
\* n is one of the pieces of s between "|" characters.
C2_PipeToken(s, n) ==
  /\ "|" \notin Range(n)
  /\ \E a \in 1..(Len(s) + 1) :
       /\ a + Len(n) - 1 <= Len(s)
       /\ SubSeq(s, a, a + Len(n) - 1) = n
       /\ (a = 1 \/ s[a - 1] = "|")
       /\ (a + Len(n) - 1 = Len(s) \/ s[a + Len(n)] = "|")

C2_AcceptedFeatures ==
  SelectSeq(Features,
            LAMBDA fn : /\ Attr(fn, "api") = target.api
                        /\ \E v \in C3_Meaning(Attr(fn, "number")) :
                             C3_LexLE(v, target.version))

C2_AcceptedExtensions ==
  SelectSeq(Extensions,
            LAMBDA en : /\ Attr(en, "name") \in target.extensions
                        /\ C2_PipeToken(Attr(en, "supported"),
                                     target.api \o target.profile))

\* Within one element: its <require> children, then the <remove> children
\* of the target's profile.
C2_OpsOf(node) ==
  Children(node, "require")
  \o SelectSeq(Children(node, "remove"),
               LAMBDA rn : Attr(rn, "profile") = target.profile)

\* The traversal: accepted features in document order, then accepted
\* extensions in document order.
C2_Ops ==
  LET elements == C2_AcceptedFeatures \o C2_AcceptedExtensions
  IN  Concat([k \in 1..Len(elements) |-> C2_OpsOf(elements[k])])

\* The names of one kind whose last operation in the traversal is a require.
C2_Expected(tag) ==
  LET ops == C2_Ops
      Naming(name) == {k \in 1..Len(ops) : name \in NamesOf(ops[k], tag)}
      Last(name) == CHOOSE k \in Naming(name) : \A j \in Naming(name) : j <= k
  IN  {name \in UNION {NamesOf(ops[k], tag) : k \in 1..Len(ops)} :
         ops[Last(name)].name = "require"}

C2_PassesDone == {"param_types", "requires", "generate_output"}

C2_AfterPasses ==
  (pc \in {"load", "features", "extensions"} /\ pc' \in C2_PassesDone) =>
    /\ manifest'.types = C2_Expected("type")
    /\ manifest'.enums = C2_Expected("enum")
    /\ manifest'.commands = C2_Expected("command")

\* The registry of the spec's example: 1.0 requires glFoo, 2.0 removes it
\* for the core profile; the base extension GL_EXT_a requires it again.
C2_ExampleFeatures ==
  <<Feature(S_gl, V_1_0, <<Require(FooRefs)>>),
    Feature(S_gl, V_2_0, <<RemoveFor(S_core, FooRefs)>>)>>

C2_Example ==
  (pc \notin {"getopt", "load", "features", "extensions", "exited"}
   /\ Features = C2_ExampleFeatures) =>
    (N_glFoo \in manifest.commands <=>
       \/ target.profile # S_core
       \/ ~C3_LexLE([major |-> 2, minor |-> 0], target.version)
       \/ X_GL_EXT_a \in target.extensions)

\* C2: after the feature pass and the extension pass, a name is in its
\* manifest set exactly when the last operation naming it, in the order
\* accepted features, then accepted extensions, requires before removes
\* within an element, is a require.
C2_LastWriteWins ==
  /\ [][C2_AfterPasses]_vars
  /\ []C2_Example

\* --core with GL_EXT_a requested on the example registry: the passes are
\* over, glFoo is back, the type and enum the feature removed are not.
C2_Witness ==
  /\ pc = "param_types"
  /\ i = 1
  /\ Features = C2_ExampleFeatures
  /\ target.profile = S_core
  /\ X_GL_EXT_a \in target.extensions
  /\ manifest.commands = {N_glFoo, N_glBar}
  /\ manifest.types = {}
  /\ manifest.enums = {}

(***************************************************************************)
(* C4: unsupported and unrequested extensions                              *)
(***************************************************************************)
C4_Requested(en) == Attr(en, "name") \in target.extensions

C4_Supported(en) ==
  C2_PipeToken(Attr(en, "supported"), target.api \o target.profile)

\* The names of tag that the <require> children of en list, and those that
\* its <remove> children of the target's profile list.
C4_Required(en, tag) ==
  UNION {NamesOf(rn, tag) : rn \in Range(Children(en, "require"))}

C4_Removed(en, tag) ==
  UNION {NamesOf(rn, tag) :
           rn \in {r \in Range(Children(en, "remove")) :
                     Attr(r, "profile") = target.profile}}

C4_Diagnostic(en) ==
  /\ Len(stdout') = Len(stdout) + 1
  /\ SubSeq(stdout', 1, Len(stdout)) = stdout
  /\ Find(stdout'[Len(stdout')], Attr(en, "name"), 1) # 0

C4_ExtensionStep ==
  pc = "extensions" =>
    LET en == Extensions[i]
    IN  /\ output' = output
        /\ status' = status
        /\ (C4_Requested(en) /\ ~C4_Supported(en)) =>
             (manifest' = manifest /\ C4_Diagnostic(en) /\ pc' # "exited")
        /\ ~C4_Requested(en) => (manifest' = manifest /\ stdout' = stdout)
        /\ (C4_Requested(en) /\ C4_Supported(en)) =>
             /\ manifest'.extensions = Append(manifest.extensions, Attr(en, "name"))
             /\ manifest'.features = manifest.features
             /\ manifest'.types =
                  (manifest.types \cup C4_Required(en, "type")) \ C4_Removed(en, "type")
             /\ manifest'.enums =
                  (manifest.enums \cup C4_Required(en, "enum")) \ C4_Removed(en, "enum")
             /\ manifest'.commands =
                  (manifest.commands \cup C4_Required(en, "command"))
                  \ C4_Removed(en, "command")
             /\ stdout' = stdout

C4_ExtBuffers(o) ==
  <<o.ext_macros, o.ext_declarations, o.ext_definitions, o.ext_loaders>>

C4_OtherStep ==
  /\ pc # "extensions" => manifest'.extensions = manifest.extensions
  /\ pc # "out_extensions" => C4_ExtBuffers(output') = C4_ExtBuffers(output)

\* The extensions of the document processed so far.
C4_Processed ==
  CASE pc \in {"getopt", "load", "features"} -> <<>>
    [] pc = "extensions" -> SubSeq(Extensions, 1, i - 1)
    [] OTHER -> Extensions

C4_AcceptedNames ==
  LET accepted == SelectSeq(C4_Processed,
                            LAMBDA en : C4_Requested(en) /\ C4_Supported(en))
  IN  [k \in 1..Len(accepted) |-> Attr(accepted[k], "name")]

C4_Buffers ==
  \A buffer \in Range(C4_ExtBuffers(output)) :
    /\ Len(buffer) <= Len(C4_AcceptedNames)
    /\ pc \in {"out_features", "out_types", "out_enums", "out_commands",
               "content", "replace_tags", "write_file", "write", "exit"}
         => Len(buffer) = Len(C4_AcceptedNames)
    /\ \A k \in 1..Len(buffer) :
         Find(buffer[k], SubSeq(C4_AcceptedNames[k], 2, Len(C4_AcceptedNames[k])), 1) # 0

\* C4: a requested extension without the support token among the pieces of
\* its supported attribute is skipped with a diagnostic and changes nothing;
\* an extension that is not requested changes nothing; a requested and
\* supported one is applied and appended, so manifest.extensions and the
\* extension buffers hold exactly the accepted ones in document order.
C4_ExtensionFiltering ==
  /\ [][C4_ExtensionStep /\ C4_OtherStep]_vars
  /\ [](pc # "exited" => (manifest.extensions = C4_AcceptedNames /\ C4_Buffers))

\* gl without a profile, GL_EXT_a and GL_EXT_b requested; GL_EXT_a is
\* supported for "glcore|gles2" only and GL_EXT_b for "gl": the run ended
\* with GL_EXT_b alone in the manifest and in the buffers.
C4_Witness ==
  /\ pc = "exit"
  /\ target.api = S_gl /\ target.profile = Empty
  /\ target.extensions = {X_GL_EXT_a, X_GL_EXT_b}
  /\ Len(Extensions) = 2
  /\ Attr(Extensions[1], "name") = X_GL_EXT_a
  /\ Attr(Extensions[1], "supported") = S_gl \o S_core \o <<"|">> \o S_gles2
  /\ Attr(Extensions[2], "name") = X_GL_EXT_b
  /\ Attr(Extensions[2], "supported") = S_gl
  /\ manifest.extensions = <<X_GL_EXT_b>>
  /\ Len(output.ext_macros) = 1
  /\ Len(stdout) = 1

(***************************************************************************)
(* C5: closure of manifest.types under requires                            *)
(***************************************************************************)
\* generate_manifest has returned.
C5_ManifestReturned ==
  pc \in {"generate_output", "out_extensions", "out_features", "out_types",
          "out_enums", "out_commands", "content", "replace_tags", "write_file",
          "write", "exit"}

\* C5: in the returned manifest, every <type> with a requires attribute whose
\* name is in manifest.types and whose api (default "gl") is target.api has
\* the value of its requires attribute in manifest.types too.
C5_RequiresClosed ==
  C5_ManifestReturned =>
    \A k \in 1..Len(Types) :
      LET tn == Types[k]
      IN  (/\ HasAttr(tn, "requires")
           /\ type_name(tn) \in manifest.types
           /\ api_name(tn) = target.api)
          => Attr(tn, "requires") \in manifest.types

(***************************************************************************)
(* C10: the parameter types of the selected commands                       *)
(***************************************************************************)
\* The <param> children of cn that have a <ptype> child.
C10_TypedParams(cn) ==
  {pn \in Range(cn.children) :
     pn.name = "param" /\ \E c \in Range(pn.children) : c.name = "ptype"}

C10_ParamTypesPresent ==
  C5_ManifestReturned =>
    \A k \in 1..Len(Commands) :
      FunctionName(Commands[k]) \in manifest.commands =>
        \A pn \in C10_TypedParams(Commands[k]) :
          ChildValue(Child(pn, "ptype")) \in manifest.types

C10_LastPasses ==
  pc \in {"param_types", "requires"} =>
    /\ manifest.types \subseteq manifest'.types
    /\ manifest'.commands = manifest.commands
    /\ manifest'.enums = manifest.enums
    /\ manifest'.features = manifest.features
    /\ manifest'.extensions = manifest.extensions

\* C10: in the returned manifest the ptype text of every parameter of every
\* selected command is in manifest.types, also when a <remove> erased it
\* before; the two last passes only add to manifest.types and change no
\* other part of the manifest.
C10_ParamTypes ==
  /\ []C10_ParamTypesPresent
  /\ [][C10_LastPasses]_vars

\* --core on a registry whose feature 2.0 removes the types GLenum and
\* GLsync: glFoo is selected and both types of its parameters are back.
C10_Witness ==
  /\ pc = "generate_output"
  /\ target.profile = S_core
  /\ Len(manifest.features) = 2
  /\ N_glFoo \in manifest.commands
  /\ \E k \in 1..Len(Commands) :
       /\ FunctionName(Commands[k]) = N_glFoo
       /\ Cardinality(C10_TypedParams(Commands[k])) = 2
  /\ {T_GLenum, T_GLsync} \subseteq manifest.types

(***************************************************************************)
(* C6: template substitution                                               *)
(***************************************************************************)
\* The tag that starts at position p of t, as an index into the bindings;
\* 0 when none does.
C6_TagAt(t, bs, p) ==
  LET ks == {k \in 1..Len(bs) :
               /\ p + Len(bs[k][1]) - 1 <= Len(t)
               /\ SubSeq(t, p, p + Len(bs[k][1]) - 1) = bs[k][1]}
  IN  IF ks = {} THEN 0 ELSE CHOOSE k \in ks : TRUE

\* The template with every tag occurrence replaced by its fragment and
\* everything else kept: one pass over the template, the inserted fragments
\* are not looked at again.
RECURSIVE C6_SinglePass(_, _, _)
C6_SinglePass(t, bs, p) ==
  IF p > Len(t) THEN <<>>
  ELSE LET k == C6_TagAt(t, bs, p)
       IN  IF k = 0 THEN <<t[p]>> \o C6_SinglePass(t, bs, p + 1)
           ELSE bs[k][2] \o C6_SinglePass(t, bs, p + Len(bs[k][1]))

C6_Step ==
  pc = "replace_tags" =>
    LET bs == Bindings(output)
        present == {k \in 1..Len(bs) : Find(text, bs[k][1], 1) # 0}
    IN  /\ present = {} => text' = text
        /\ text' = C6_SinglePass(text, bs, 1)
        /\ \A k \in present : Find(text', bs[k][1], 1) = 0

\* C6: generate_content returns a template without tags unchanged; with
\* tags, each occurrence is replaced by its fragment verbatim, the tag is
\* gone from the result, and the rest of the template is kept -- whatever
\* the fragments hold.
C6_Substitution == [][C6_Step]_vars

(***************************************************************************)
(* C7: command_params                                                      *)
(***************************************************************************)
RECURSIVE C7_Join(_)
C7_Join(texts) ==
  IF Len(texts) = 1 THEN texts[1]
  ELSE texts[1] \o <<", ">> \o C7_Join(Tail(texts))

\* The parameter text inside a typedef line: between ")(" and the closing
\* ");\n".
C7_ParamsOf(line) ==
  SubSeq(line, Find(line, <<")(">>, 1) + 1, Len(line) - 1)

C7_Step ==
  (pc = "out_commands" /\ output'.cmd_typedefs # output.cmd_typedefs) =>
    LET pns == Children(Commands[i], "param")
        texts == [k \in 1..Len(pns) |-> scrape_proto_text(pns[k])]
        result == C7_ParamsOf(output'.cmd_typedefs[Len(output'.cmd_typedefs)])
    IN  /\ result = S_void <=> Len(pns) = 0
        /\ Len(pns) > 0 => result = C7_Join(texts)

\* C7: the parameter text of a command is "void" exactly when it has no
\* <param> child, and otherwise the texts of its <param> children joined by
\* ", ", one separator between each two, also when a text is empty.
C7_CommandParams == [][C7_Step]_vars

(***************************************************************************)
(* C9: the buffers of generate_output stay aligned                         *)
(***************************************************************************)
\* How many nodes the loop has processed in the current state.
C9_Done(loop) ==
  IF pc = loop THEN i - 1
  ELSE IF pc \in {"content", "replace_tags", "write_file", "write", "exit"}
       THEN LoopLen(loop, manifest)
  ELSE IF /\ pc \in Range(OutputLoops)
          /\ IndexOf(OutputLoops, loop) < IndexOf(OutputLoops, pc)
       THEN LoopLen(loop, manifest)
  ELSE 0

\* The processed <command> elements whose proto name is in manifest.commands.
C9_Commands ==
  SelectSeq(SubSeq(Commands, 1, C9_Done("out_commands")),
            LAMBDA cn : ChildValue(Child(Child(cn, "proto"), "name"))
                          \in manifest.commands)

C9_CommandBuffers ==
  LET cs == C9_Commands
  IN  /\ output.cmd_typedefs = [k \in 1..Len(cs) |-> CmdTypedefLine(cs[k])]
      /\ output.cmd_declarations = [k \in 1..Len(cs) |-> CmdDeclarationLine(cs[k])]
      /\ output.cmd_macros = [k \in 1..Len(cs) |-> CmdMacroLine(cs[k])]
      /\ output.cmd_definitions = [k \in 1..Len(cs) |-> CmdDefinitionLine(cs[k])]
      /\ output.cmd_loaders = [k \in 1..Len(cs) |-> CmdLoaderLine(cs[k])]

C9_ExtensionBuffers ==
  LET es == SubSeq(manifest.extensions, 1, C9_Done("out_extensions"))
  IN  /\ output.ext_macros = [k \in 1..Len(es) |-> ExtMacroLine(es[k])]
      /\ output.ext_declarations = [k \in 1..Len(es) |-> ExtDeclarationLine(es[k])]
      /\ output.ext_definitions = [k \in 1..Len(es) |-> ExtDefinitionLine(es[k])]
      /\ output.ext_loaders = [k \in 1..Len(es) |-> ExtLoaderLine(es[k])]

C9_VersionBuffers ==
  LET fs == SubSeq(manifest.features, 1, C9_Done("out_features"))
  IN  /\ output.ver_macros = [k \in 1..Len(fs) |-> VerMacroLine(fs[k])]
      /\ output.ver_declarations = [k \in 1..Len(fs) |-> VerDeclarationLine(fs[k])]
      /\ output.ver_definitions = [k \in 1..Len(fs) |-> VerDefinitionLine(fs[k])]
      /\ output.ver_loaders = [k \in 1..Len(fs) |-> VerLoaderLine(fs[k])]

C9_LineBuffers ==
  {"type_typedefs", "enum_definitions", "ext_macros", "ver_macros",
   "ext_declarations", "ver_declarations", "ext_definitions", "ver_definitions",
   "ver_loaders", "ext_loaders", "cmd_typedefs", "cmd_declarations",
   "cmd_macros", "cmd_definitions", "cmd_loaders"}

C9_AppendOnly ==
  \A b \in C9_LineBuffers :
    /\ Len(output[b]) <= Len(output'[b])
    /\ SubSeq(output'[b], 1, Len(output[b])) = output[b]

\* C9: after every prefix of the <command> elements each of the five command
\* buffers holds one line for each processed element whose proto name is in
\* manifest.commands, in document order, and nothing else; likewise the four
\* extension buffers over manifest.extensions and the four version buffers
\* over manifest.features; no step rewrites what a buffer holds.
C9_AlignedBuffers ==
  /\ [](pc # "exited" =>
          (C9_CommandBuffers /\ C9_ExtensionBuffers /\ C9_VersionBuffers))
  /\ [][C9_AppendOnly]_vars

\* Two <command> elements, glBaz that nothing requires and then glFoo: the
\* first was passed over, the second has its line in every command buffer.
C9_Witness ==
  /\ pc = "content"
  /\ Len(Commands) = 2
  /\ FunctionName(Commands[1]) = N_glBaz
  /\ FunctionName(Commands[2]) = N_glFoo
  /\ N_glBaz \notin manifest.commands
  /\ output.cmd_macros = <<CmdMacroLine(Commands[2])>>
  /\ Len(output.cmd_loaders) = 1
  /\ Len(output.ext_macros) = 1
  /\ Len(output.ver_macros) = 1

(***************************************************************************)
(* C8: a run writes the whole output or nothing                            *)
(***************************************************************************)
C8_FatalMessages ==
  {<<"usage">>, <<"File not found">>, <<"Failed to parse file">>,
   <<"Failed to create file">>}

\* The output file is touched by write_file alone, in a run that got through
\* the options, the registry, both generators and the template.
C8_Touched ==
  outfile # Untouched =>
    /\ pc \in {"write", "exit", "exited"}
    /\ optind = Len(argv) + 1
    /\ \A k \in 1..Len(argv) : argv[k].opt \in {"api", "core", "version", "extensions"}
    /\ \A k \in 1..Len(stdout) : stdout[k] \notin C8_FatalMessages
    /\ output.api_name = ApiName(target)
    /\ Len(output.ext_macros) = Len(manifest.extensions)
    /\ Len(output.ver_macros) = Len(manifest.features)
    /\ status # "EXIT_FAILURE"

C8_Failure == status = "EXIT_FAILURE" => (pc = "exited" /\ outfile = Untouched)

C8_Success ==
  status = "EXIT_SUCCESS" =>
    /\ pc = "exited"
    /\ \/ outfile = [touched |-> TRUE, content |-> text]
       \/ /\ argv[optind - 1].opt \in {"h", "help"}
          /\ outfile = Untouched
          /\ manifest = EmptyManifest
          /\ output = EmptyOutput

C8_Step ==
  /\ pc # "exited"
  /\ outfile' # outfile => pc \in {"write_file", "write"}
  /\ (pc = "getopt" /\ optind <= Len(argv)) =>
       /\ argv[optind].opt \in {"h", "help"} =>
            (pc' = "exited" /\ status' = "EXIT_SUCCESS")
       /\ argv[optind].opt \notin {"h", "help", "api", "core", "version", "extensions"} =>
            (pc' = "exited" /\ status' = "EXIT_FAILURE")
  /\ (Len(stdout') > Len(stdout) /\ stdout'[Len(stdout')] \in C8_FatalMessages) =>
       (pc' = "exited" /\ status' # "running" /\ outfile' = outfile)
  /\ pc = "write" => outfile' = [touched |-> TRUE, content |-> text]

====
